---- MODULE Spec2Model ----
(***************************************************************************)
(* Model of two UI components of the editor:                               *)
(*   crates/assistant2/src/tool_selector.rs          (ToolSelector)        *)
(*   crates/collab_ui/src/incoming_call_notification.rs                    *)
(* Tool names are sequences of character codes so that the alphabetical    *)
(* order used by sort_by is computed, not assumed.                         *)
(***************************************************************************)
EXTENDS Integers, Sequences, FiniteSets, TLC

VARIABLES settings, settingsDirty, profiles, tools, menuOpen, menu,
          staleClicks, lastOp,
          loopRunning, notification_window, windows, calls, dispatched,
          callOp

toolVars == <<settings, settingsDirty, profiles, tools, menuOpen, menu,
              staleClicks, lastOp>>

callVars == <<loopRunning, notification_window, windows, calls, dispatched,
              callOp>>

vars == <<settings, settingsDirty, profiles, tools, menuOpen, menu,
          staleClicks, lastOp,
          loopRunning, notification_window, windows, calls, dispatched,
          callOp>>

----------------------------------------------------------------------------
(* Bounds *)

\* How many menu entries may be invoked on one built menu before it is
\* rebuilt (entries capture their state at build time).
MaxStaleClicks == 1

\* How many incoming calls the stream delivers in one run.
MaxCalls == 2

----------------------------------------------------------------------------
(* Names, sources, profiles *)

\* "a", "ba", "c": the names registered tools may carry.
NameA == <<1>>
NameBA == <<2, 1>>
NameC == <<3>>

\* ScriptingTool::NAME ("b": sorts between "a" and "ba").
ScriptingToolNAME == <<2>>

Min(a, b) == IF a < b THEN a ELSE b

\* str::cmp == Less: bytewise lexicographic order.
NameLess(a, b) ==
    \E k \in 1..(Min(Len(a), Len(b)) + 1) :
        /\ \A i \in 1..(k - 1) : a[i] = b[i]
        /\ \/ k = Len(a) + 1 /\ k <= Len(b)
           \/ k <= Len(a) /\ k <= Len(b) /\ a[k] < b[k]

Native == [kind |-> "Native", id |-> ""]
ContextServer(id) == [kind |-> "ContextServer", id |-> id]
CtxX == ContextServer("X")
AllSources == {Native, CtxX}

READ_ONLY_ID == "read-only"
CODE_WRITER_ID == "code-writer"

\* AgentProfile::read_only(): only read-only-safe tools, all enabled.
AgentProfile_read_only ==
    [name |-> "Read-only", tools |-> [n \in {NameA} |-> TRUE]]

\* AgentProfile::code_writer(): the editing tools, all enabled.
AgentProfile_code_writer ==
    [name |-> "Code Writer", tools |-> [n \in {NameA, NameBA, NameC} |-> TRUE]]

\* Profiles a user may declare in the settings file.
UserScripter ==
    [name |-> "Scripter",
     tools |-> [n \in {ScriptingToolNAME, NameA, NameC} |->
                   IF n = NameC THEN TRUE ELSE FALSE]]
UserReadOnly ==
    [name |-> "My read-only",
     tools |-> [n \in {ScriptingToolNAME, NameC} |-> TRUE]]
UserCodeWriter ==
    [name |-> "My writer", tools |-> [n \in {NameBA} |-> FALSE]]

\* Values of AssistantSettings.profiles: maps from profile id to profile.
SettingsPool ==
    { [id \in {} |-> UserScripter],
      [id \in {READ_ONLY_ID} |-> UserReadOnly],
      [id \in {"scripter", CODE_WRITER_ID} |->
          IF id = "scripter" THEN UserScripter ELSE UserCodeWriter],
      [id \in {READ_ONLY_ID, CODE_WRITER_ID} |->
          IF id = READ_ONLY_ID THEN UserReadOnly ELSE UserCodeWriter] }

\* BTreeMap::insert(key, value)
MapInsert(m, k, v) == [x \in (DOMAIN m) \cup {k} |-> IF x = k THEN v ELSE m[x]]

----------------------------------------------------------------------------
(* ToolWorkingSet: the registry the selector reads and mutates *)

\* Tool lists a registry may hold, per source, in registry iteration order.
RegistryConfigs ==
    { << [source |-> Native, tools |-> <<NameC, NameA>>],
         [source |-> CtxX, tools |-> <<NameC, ScriptingToolNAME>>] >>,
      << [source |-> CtxX, tools |-> <<NameC, NameA>>],
         [source |-> Native, tools |-> <<NameBA, NameA>>] >>,
      << [source |-> CtxX, tools |-> <<NameBA>>] >>,
      << [source |-> Native, tools |-> <<NameC, NameBA, NameA>>] >> }

Range(s) == {s[i] : i \in 1..Len(s)}

SourceTools(ws, source) ==
    UNION {Range(ws.tools_by_source[i].tools) :
             i \in {j \in 1..Len(ws.tools_by_source) :
                      ws.tools_by_source[j].source = source}}

tools_by_source(ws) == ws.tools_by_source

is_enabled(ws, source, name) == name \in ws.enabled_tools_by_source[source]

is_scripting_tool_enabled(ws) == ws.is_scripting_tool_enabled

are_all_tools_from_source_enabled(ws, source) ==
    \A n \in SourceTools(ws, source) : is_enabled(ws, source, n)

are_all_tools_enabled(ws) ==
    /\ \A s \in AllSources : are_all_tools_from_source_enabled(ws, s)
    /\ ws.is_scripting_tool_enabled

enable(ws, source, names) ==
    [ws EXCEPT !.enabled_tools_by_source[source] = @ \cup names]

disable(ws, source, names) ==
    [ws EXCEPT !.enabled_tools_by_source[source] = @ \ names]

enable_source(ws, source) ==
    [ws EXCEPT !.enabled_tools_by_source[source] = SourceTools(ws, source)]

disable_source(ws, source) ==
    [ws EXCEPT !.enabled_tools_by_source[source] = {}]

enable_scripting_tool(ws) == [ws EXCEPT !.is_scripting_tool_enabled = TRUE]

disable_scripting_tool(ws) == [ws EXCEPT !.is_scripting_tool_enabled = FALSE]

enable_all_tools(ws) ==
    [ws EXCEPT !.enabled_tools_by_source =
                   [s \in AllSources |-> SourceTools(ws, s)],
               !.is_scripting_tool_enabled = TRUE]

disable_all_tools(ws) ==
    [ws EXCEPT !.enabled_tools_by_source = [s \in AllSources |-> {}],
               !.is_scripting_tool_enabled = FALSE]

----------------------------------------------------------------------------
(* ToolSelector *)

\* refresh_profiles inserting the built-ins unconditionally.
refresh_profiles_overwrite(userProfiles) ==
    MapInsert(MapInsert(userProfiles, READ_ONLY_ID, AgentProfile_read_only),
              CODE_WRITER_ID, AgentProfile_code_writer)

\* ToolSelector::refresh_profiles
refresh_profiles(userProfiles) ==
    LET p0 == userProfiles
        p1 == IF READ_ONLY_ID \notin DOMAIN p0
              THEN MapInsert(p0, READ_ONLY_ID, AgentProfile_read_only)
              ELSE p0
        p2 == IF CODE_WRITER_ID \notin DOMAIN p1
              THEN MapInsert(p1, CODE_WRITER_ID, AgentProfile_code_writer)
              ELSE p1
    IN p2

\* The tools a profile marks enabled (the filter_map of the entry's closure).
ProfileEnabledTools(profile) ==
    {n \in DOMAIN profile.tools : profile.tools[n]}

\* The profile closure without the initial disable_source (incremental).
ProfileEntryAction_incremental(ws, profile) ==
    LET t2 == disable_scripting_tool(ws)
        t3 == enable(t2, Native, ProfileEnabledTools(profile))
    IN IF ScriptingToolNAME \in DOMAIN profile.tools
       THEN enable_scripting_tool(t3)
       ELSE t3

\* The profile closure enabling scripting by the flag, not by the key.
ProfileEntryAction_flag(ws, profile) ==
    LET t1 == disable_source(ws, Native)
        t2 == disable_scripting_tool(t1)
        t3 == enable(t2, Native, ProfileEnabledTools(profile))
    IN IF ScriptingToolNAME \in ProfileEnabledTools(profile)
       THEN enable_scripting_tool(t3)
       ELSE t3

\* The closure bound to a profile entry.
ProfileEntryAction(ws, profile) ==
    LET t1 == disable_source(ws, Native)
        t2 == disable_scripting_tool(t1)
        t3 == enable(t2, Native, ProfileEnabledTools(profile))
    IN IF ScriptingToolNAME \in DOMAIN profile.tools
       THEN enable_scripting_tool(t3)
       ELSE t3

\* The "All Tools" closure ignoring the captured state.
AllToolsEntryAction_always_enable(ws, all_tools_enabled) ==
    enable_all_tools(ws)

\* The closure bound to the top-level "All Tools" entry.
AllToolsEntryAction(ws, all_tools_enabled) ==
    IF all_tools_enabled THEN disable_all_tools(ws) ELSE enable_all_tools(ws)

\* The closure bound to a context-server section's "All Tools" entry.
SourceAllToolsEntryAction(ws, source, all_tools_from_source_enabled) ==
    IF all_tools_from_source_enabled
    THEN disable_source(ws, source)
    ELSE enable_source(ws, source)

\* The closure bound to a per-tool entry.
ToolEntryAction(ws, entry) ==
    IF entry.name = ScriptingToolNAME
    THEN IF entry.is_enabled
         THEN disable_scripting_tool(ws)
         ELSE enable_scripting_tool(ws)
    ELSE IF entry.is_enabled
         THEN disable(ws, entry.source, {entry.name})
         ELSE enable(ws, entry.source, {entry.name})

\* Vec::sort_by(|a, b| a.name.cmp(b.name)): a stable sort.
InsertSorted(s, e) ==
    LET p == Cardinality({i \in 1..Len(s) : ~NameLess(e.name, s[i].name)})
    IN SubSeq(s, 1, p) \o <<e>> \o SubSeq(s, p + 1, Len(s))

RECURSIVE sort_by(_)
sort_by(s) ==
    IF s = <<>> THEN <<>>
    ELSE InsertSorted(sort_by(SubSeq(s, 1, Len(s) - 1)), s[Len(s)])

\* The section list with the scripting entry pushed but never sorted.
SectionTools_unsorted(ws, source, names) ==
    LET mapped == [i \in 1..Len(names) |->
                     [source |-> source, name |-> names[i],
                      is_enabled |-> is_enabled(ws, source, names[i])]]
    IN IF source = Native
       THEN Append(mapped,
                [source |-> Native, name |-> ScriptingToolNAME,
                 is_enabled |-> is_scripting_tool_enabled(ws)])
       ELSE mapped

\* The (source, name, is_enabled) list of one section.
SectionTools(ws, source, names) ==
    LET mapped == [i \in 1..Len(names) |->
                     [source |-> source, name |-> names[i],
                      is_enabled |-> is_enabled(ws, source, names[i])]]
    IN IF source = Native
       THEN sort_by(Append(mapped,
                [source |-> Native, name |-> ScriptingToolNAME,
                 is_enabled |-> is_scripting_tool_enabled(ws)]))
       ELSE mapped

\* The checked state of the top-level "All Tools" entry.
AllToolsChecked(ws) == are_all_tools_enabled(ws)

\* ToolSelector::build_context_menu
build_context_menu(selfProfiles, ws) ==
    [profiles |-> selfProfiles,
     all_tools_enabled |-> AllToolsChecked(ws),
     sections |->
        [i \in 1..Len(tools_by_source(ws)) |->
           LET src == tools_by_source(ws)[i].source
           IN [source |-> src,
               header |-> IF src = Native THEN "Zed Tools" ELSE src.id,
               all_tools_from_source_enabled |->
                   are_all_tools_from_source_enabled(ws, src),
               tools |-> SectionTools(ws, src, tools_by_source(ws)[i].tools)]]]

EmptyMenu ==
    [profiles |-> [id \in {} |-> UserScripter],
     all_tools_enabled |-> FALSE,
     sections |-> <<>>]

NoOp == [kind |-> "none", id |-> "", section |-> 0, entry |-> 0]

----------------------------------------------------------------------------
(* Initial state: ToolSelector::new over any registry state *)

ToolInit ==
    /\ settings \in SettingsPool
    /\ settingsDirty = FALSE
    /\ profiles = refresh_profiles(settings)
    /\ \E cfg \in RegistryConfigs :
       \E sc \in BOOLEAN :
       \E en \in [AllSources -> SUBSET {NameA, NameBA, NameC, ScriptingToolNAME}] :
          /\ \A s \in AllSources :
                en[s] \subseteq UNION {Range(cfg[i].tools) :
                                 i \in {j \in 1..Len(cfg) : cfg[j].source = s}}
          /\ tools = [tools_by_source |-> cfg,
                      enabled_tools_by_source |-> en,
                      is_scripting_tool_enabled |-> sc]
    /\ menuOpen = FALSE
    /\ menu = EmptyMenu
    /\ staleClicks = 0
    /\ lastOp = NoOp

----------------------------------------------------------------------------
(* Actions *)

\* The settings store changes; observers are notified later in the cycle.
SettingsChanged ==
    /\ \E s \in SettingsPool : settings' = s
    /\ settingsDirty' = TRUE
    /\ lastOp' = [NoOp EXCEPT !.kind = "settings"]
    /\ UNCHANGED <<profiles, tools, menuOpen, menu, staleClicks>>
    /\ UNCHANGED callVars

\* The observe_global::<SettingsStore> callback.
ObserveSettings ==
    /\ settingsDirty
    /\ profiles' = refresh_profiles(settings)
    /\ settingsDirty' = FALSE
    /\ lastOp' = [NoOp EXCEPT !.kind = "refresh"]
    /\ UNCHANGED <<settings, tools, menuOpen, menu, staleClicks>>
    /\ UNCHANGED callVars

\* PopoverMenu opens (or rebuilds) the menu.
OpenMenu ==
    /\ menu' = build_context_menu(profiles, tools)
    /\ menuOpen' = TRUE
    /\ staleClicks' = 0
    /\ lastOp' = [NoOp EXCEPT !.kind = "open"]
    /\ UNCHANGED <<settings, settingsDirty, profiles, tools>>
    /\ UNCHANGED callVars

ClickFrame ==
    /\ menuOpen
    /\ staleClicks < MaxStaleClicks
    /\ staleClicks' = staleClicks + 1
    /\ UNCHANGED <<settings, settingsDirty, profiles, menuOpen, menu>>
    /\ UNCHANGED callVars

ClickProfile ==
    /\ ClickFrame
    /\ \E id \in DOMAIN menu.profiles :
          /\ tools' = ProfileEntryAction(tools, menu.profiles[id])
          /\ lastOp' = [NoOp EXCEPT !.kind = "profile", !.id = id]

ClickAllTools ==
    /\ ClickFrame
    /\ tools' = AllToolsEntryAction(tools, menu.all_tools_enabled)
    /\ lastOp' = [NoOp EXCEPT !.kind = "all"]

ClickSourceAllTools ==
    /\ ClickFrame
    /\ \E i \in 1..Len(menu.sections) :
          /\ menu.sections[i].source.kind = "ContextServer"
          /\ tools' = SourceAllToolsEntryAction(tools, menu.sections[i].source,
                          menu.sections[i].all_tools_from_source_enabled)
          /\ lastOp' = [NoOp EXCEPT !.kind = "source", !.section = i]

ClickTool ==
    /\ ClickFrame
    /\ \E i \in 1..Len(menu.sections) :
       \E j \in 1..Len(menu.sections[i].tools) :
          /\ tools' = ToolEntryAction(tools, menu.sections[i].tools[j])
          /\ lastOp' = [NoOp EXCEPT !.kind = "tool", !.section = i, !.entry = j]

----------------------------------------------------------------------------
(* Incoming-call notification *)

\* Option<T> is the set of at most one value.
None == {}
Some(x) == {x}

\* Incoming calls the stream may deliver: callers U (1) and V (2), with or
\* without an initial project.
IncomingCalls ==
    [caller_id : {1, 2}, initial_project_id : {None, Some(7)}]

\* What is recorded for the window opened for one call.
NewNotification(call) ==
    [call |-> call, response |-> "none", join_requests |-> 0,
     join |-> "none", task |-> "none", detached |-> FALSE,
     decline_calls |-> 0]

\* Dropping a window's view drops the tasks it still holds; a dropped task
\* is cancelled, a detached one keeps running.
DropView(n) ==
    IF n.task = "awaiting" /\ ~n.detached
    THEN [n EXCEPT !.task = "cancelled"]
    ELSE n

\* The notifications after the views of the windows in closed are dropped.
DropViews(cs, closed) ==
    [w \in 1..Len(cs) |-> IF w \in closed THEN DropView(cs[w]) ELSE cs[w]]

\* cx.add_window: window ids are never reused.
add_window(ws, id) == ws \cup {id}

\* cx.remove_window
remove_window(ws, id) == ws \ {id}

\* The loop body leaving the previous window open.
ClosePrevious_keep(ws, previous) == ws

\* The windows left after the loop body has dealt with the previous window.
ClosePrevious(ws, previous) ==
    IF previous # None THEN ws \ previous ELSE ws

\* One iteration of the loop spawned by init, for one stream item.
LoopIteration(incoming_call) ==
    LET id == Len(calls) + 1
        afterClose == ClosePrevious(windows, notification_window)
        kept == DropViews(calls, windows \ afterClose)
    IN IF incoming_call # None
       THEN /\ Len(calls) < MaxCalls
            /\ windows' = add_window(afterClose, id)
            /\ calls' = Append(kept,
                   NewNotification(CHOOSE c \in incoming_call : TRUE))
            /\ notification_window' = Some(id)
            /\ callOp' = [kind |-> "event", window |-> id, err |-> FALSE]
       ELSE /\ windows' = afterClose
            /\ calls' = kept
            /\ notification_window' = None
            /\ callOp' = [kind |-> "event", window |-> 0, err |-> FALSE]

\* respond_to_call closing the window on decline only.
RespondClose_decline_only(ws, w, accept) ==
    IF accept THEN ws ELSE remove_window(ws, w)

\* The windows left after respond_to_call has run on window w.
RespondClose(ws, w, accept) == remove_window(ws, w)

\* The accept branch keeping the task handle in the view.
AcceptBranch_not_detached(n) ==
    [n EXCEPT !.response = "accept", !.join_requests = @ + 1,
              !.join = "pending", !.task = "awaiting", !.detached = FALSE]

\* The accept branch of respond_to_call: join requested, task spawned and
\* detached.
AcceptBranch(n) ==
    [n EXCEPT !.response = "accept", !.join_requests = @ + 1,
              !.join = "pending", !.task = "awaiting", !.detached = TRUE]

\* The decline branch never reaching the user store.
DeclineBranch_no_call(n) ==
    [n EXCEPT !.response = "decline"]

\* The decline branch of respond_to_call: user_store.decline_call().log_err()
DeclineBranch(n) ==
    [n EXCEPT !.response = "decline", !.decline_calls = @ + 1]

\* The task dispatching without looking at the join result.
TaskDispatch_ignore_result(w, n) ==
    IF n.call.initial_project_id # None
    THEN << [project_id |-> CHOOSE p \in n.call.initial_project_id : TRUE,
             follow_user_id |-> n.call.caller_id,
             window |-> w] >>
    ELSE << >>

\* The signals the spawned task dispatches once the join has resolved.
TaskDispatch(w, n) ==
    IF n.join = "ok" /\ n.call.initial_project_id # None
    THEN << [project_id |-> CHOOSE p \in n.call.initial_project_id : TRUE,
             follow_user_id |-> n.call.caller_id,
             window |-> w] >>
    ELSE << >>

NoCallOp == [kind |-> "none", window |-> 0, err |-> FALSE]

CallInit ==
    /\ loopRunning = TRUE
    /\ notification_window = None
    /\ windows = {}
    /\ calls = << >>
    /\ dispatched = << >>
    /\ callOp = NoCallOp

\* The incoming-call stream yields an item and the loop handles it.
StreamEvent ==
    /\ loopRunning
    /\ \E incoming_call \in {None} \cup {Some(c) : c \in IncomingCalls} :
          LoopIteration(incoming_call)
    /\ UNCHANGED <<loopRunning, dispatched>>
    /\ UNCHANGED toolVars

\* The stream ends: the loop exits and drops its window handle.
StreamEnd ==
    /\ loopRunning
    /\ loopRunning' = FALSE
    /\ notification_window' = None
    /\ callOp' = [kind |-> "end", window |-> 0, err |-> FALSE]
    /\ UNCHANGED <<windows, calls, dispatched>>
    /\ UNCHANGED toolVars

\* IncomingCallNotification::respond_to_call on the view of window w.
RespondToCall(w, accept) ==
    /\ w \in windows
    /\ IF accept
       THEN /\ calls' = DropViews([calls EXCEPT ![w] = AcceptBranch(@)],
                                  windows \ RespondClose(windows, w, accept))
            /\ callOp' = [kind |-> "accept", window |-> w, err |-> FALSE]
       ELSE /\ calls' = [calls EXCEPT ![w] = DeclineBranch(@)]
            /\ \E e \in BOOLEAN :
                  callOp' = [kind |-> "decline", window |-> w, err |-> e]
    /\ windows' = RespondClose(windows, w, accept)
    /\ UNCHANGED <<loopRunning, notification_window, dispatched>>
    /\ UNCHANGED toolVars

Accept == \E w \in 1..Len(calls) : RespondToCall(w, TRUE)

Decline == \E w \in 1..Len(calls) : RespondToCall(w, FALSE)

\* The call service resolves the join future of window w's call.
JoinResolves ==
    /\ \E w \in 1..Len(calls) :
       \E r \in {"ok", "err"} :
          /\ calls[w].join = "pending"
          /\ calls' = [calls EXCEPT ![w].join = r]
          /\ callOp' = [kind |-> "resolve", window |-> w, err |-> r = "err"]
    /\ UNCHANGED <<loopRunning, notification_window, windows, dispatched>>
    /\ UNCHANGED toolVars

\* The spawned task resumes after join.await and runs to its end.
TaskResume(w) ==
    /\ w \in 1..Len(calls)
    /\ calls[w].task = "awaiting"
    /\ calls[w].join \in {"ok", "err"}
    /\ dispatched' = dispatched \o TaskDispatch(w, calls[w])
    /\ calls' = [calls EXCEPT ![w].task = "done"]
    /\ callOp' = [kind |-> "resume", window |-> w, err |-> calls[w].join = "err"]
    /\ UNCHANGED <<loopRunning, notification_window, windows>>
    /\ UNCHANGED toolVars

TaskResumes == \E w \in 1..MaxCalls : TaskResume(w)

CallNext ==
    \/ StreamEvent
    \/ StreamEnd
    \/ Accept
    \/ Decline
    \/ JoinResolves
    \/ TaskResumes

ToolNext ==
    \/ SettingsChanged
    \/ ObserveSettings
    \/ OpenMenu
    \/ ClickProfile
    \/ ClickAllTools
    \/ ClickSourceAllTools
    \/ ClickTool

\* A selector over one fixed registry, for runs of the call notification.
ToolIdle ==
    /\ settings = [id \in {} |-> UserScripter]
    /\ settingsDirty = FALSE
    /\ profiles = refresh_profiles(settings)
    /\ tools = [tools_by_source |-> << >>,
                enabled_tools_by_source |-> [s \in AllSources |-> {}],
                is_scripting_tool_enabled |-> FALSE]
    /\ menuOpen = FALSE
    /\ menu = EmptyMenu
    /\ staleClicks = 0
    /\ lastOp = NoOp

Init == ToolInit /\ CallInit

Next == ToolNext \/ CallNext

Spec == Init /\ [][Next]_vars

ToolSpec == Init /\ [][ToolNext]_vars

CallSpecInit == ToolIdle /\ CallInit

CallSpec == CallSpecInit /\ [][CallNext]_vars

\* The executor polls a task whose awaited future has resolved.
CallFairSpec ==
    CallSpec /\ \A w \in 1..MaxCalls : WF_vars(TaskResume(w))

----------------------------------------------------------------------------
(* Properties of the tool selector *)

\* C1: once the selector has handled the latest settings change (and right
\* after construction) its profile map is the user's profiles plus the two
\* built-in ids: every user profile is kept unchanged, including one that
\* carries a built-in id, and a built-in is present exactly when the user
\* declared no profile with its id.
C1_ProfilesResolved ==
    ~settingsDirty =>
        /\ DOMAIN profiles = (DOMAIN settings) \cup {"read-only", "code-writer"}
        /\ \A id \in DOMAIN settings : profiles[id] = settings[id]
        /\ "read-only" \notin DOMAIN settings =>
               profiles["read-only"] = AgentProfile_read_only
        /\ "code-writer" \notin DOMAIN settings =>
               profiles["code-writer"] = AgentProfile_code_writer

C1_Witness ==
    /\ lastOp.kind = "refresh"
    /\ "read-only" \in DOMAIN settings
    /\ "code-writer" \notin DOMAIN settings
    /\ profiles["read-only"] = UserReadOnly
    /\ profiles["read-only"] # AgentProfile_read_only
    /\ profiles["code-writer"] = AgentProfile_code_writer

\* C2: a step that invokes profile P's menu entry leaves the native source's
\* enabled set equal to exactly the tools P marks enabled, whatever was
\* enabled before, and leaves every other source's enabled set as it was.
C2_ProfileFullReplace ==
    [][lastOp'.kind = "profile" =>
          LET P == menu.profiles[lastOp'.id]
          IN /\ tools'.enabled_tools_by_source[Native]
                    = {n \in DOMAIN P.tools : P.tools[n] = TRUE}
             /\ \A s \in AllSources \ {Native} :
                    tools'.enabled_tools_by_source[s]
                        = tools.enabled_tools_by_source[s]]_vars

C2_Witness ==
    /\ lastOp.kind = "profile"
    /\ menu.profiles[lastOp.id] = AgentProfile_read_only
    /\ tools.enabled_tools_by_source[Native] = {NameA}
    /\ tools.enabled_tools_by_source[CtxX] # {}
    /\ \E i \in 1..Len(menu.sections) :
          /\ menu.sections[i].source = Native
          /\ \E j \in 1..Len(menu.sections[i].tools) :
                /\ menu.sections[i].tools[j].name = NameC
                /\ menu.sections[i].tools[j].is_enabled

\* C3: after profile P's menu entry has been invoked the scripting
\* pseudo-tool is enabled exactly when P's tool map has an entry under the
\* scripting tool's name, whatever the entry's flag and whatever the
\* pseudo-tool's state before.
C3_ScriptingIffDeclared ==
    lastOp.kind = "profile" =>
        (tools.is_scripting_tool_enabled
            <=> ScriptingToolNAME \in DOMAIN menu.profiles[lastOp.id].tools)

C3_Witness ==
    /\ lastOp.kind = "profile"
    /\ ScriptingToolNAME \in DOMAIN menu.profiles[lastOp.id].tools
    /\ menu.profiles[lastOp.id].tools[ScriptingToolNAME] = FALSE
    /\ tools.is_scripting_tool_enabled

\* Every registered tool of every source and the scripting pseudo-tool are
\* enabled.
EveryToolEnabled ==
    /\ \A i \in 1..Len(tools.tools_by_source) :
       \A j \in 1..Len(tools.tools_by_source[i].tools) :
          tools.tools_by_source[i].tools[j]
             \in tools.enabled_tools_by_source[tools.tools_by_source[i].source]
    /\ tools.is_scripting_tool_enabled

\* No registered tool of any source is enabled, nor the scripting pseudo-tool.
EveryToolDisabled ==
    /\ \A i \in 1..Len(tools.tools_by_source) :
       \A j \in 1..Len(tools.tools_by_source[i].tools) :
          tools.tools_by_source[i].tools[j]
             \notin tools.enabled_tools_by_source[tools.tools_by_source[i].source]
    /\ ~tools.is_scripting_tool_enabled

\* C4: in a freshly built menu the top-level "All Tools" entry is checked
\* exactly when every tool of every source and the scripting pseudo-tool are
\* enabled; invoking the entry leaves everything disabled when it was built
\* checked and everything enabled when it was built unchecked.
C4_AllToolsToggle ==
    /\ (menuOpen /\ staleClicks = 0) =>
           (menu.all_tools_enabled <=> EveryToolEnabled)
    /\ lastOp.kind = "all" =>
           IF menu.all_tools_enabled THEN EveryToolDisabled
                                     ELSE EveryToolEnabled

C4_Witness ==
    /\ lastOp.kind = "all"
    /\ menu.all_tools_enabled
    /\ Len(tools.tools_by_source) = 2
    /\ EveryToolDisabled

\* C5: in every built menu a native section lists the registry's native
\* tools plus exactly one scripting entry, sorted by name; a context-server
\* section lists that source's tools in registry order with no entry
\* injected.
C5_SectionOrder ==
    menuOpen =>
        /\ Len(menu.sections) = Len(tools.tools_by_source)
        /\ \A i \in 1..Len(menu.sections) :
              LET sec == menu.sections[i]
                  reg == tools.tools_by_source[i]
              IN /\ sec.source = reg.source
                 /\ IF sec.source.kind = "Native"
                    THEN /\ Len(sec.tools) = Len(reg.tools) + 1
                         /\ {sec.tools[j].name : j \in 1..Len(sec.tools)}
                               = Range(reg.tools) \cup {ScriptingToolNAME}
                         /\ Cardinality({j \in 1..Len(sec.tools) :
                               sec.tools[j].name = ScriptingToolNAME}) = 1
                         /\ \A j \in 1..Len(sec.tools) :
                            \A k \in 1..Len(sec.tools) :
                               j < k => ~NameLess(sec.tools[k].name,
                                                  sec.tools[j].name)
                    ELSE /\ Len(sec.tools) = Len(reg.tools)
                         /\ \A j \in 1..Len(sec.tools) :
                               /\ sec.tools[j].name = reg.tools[j]
                               /\ sec.tools[j].source = sec.source

C5_Witness ==
    /\ menuOpen
    /\ Len(menu.sections) = 2
    /\ menu.sections[1].source = Native
    /\ tools.tools_by_source[1].tools = <<NameC, NameA>>
    /\ [j \in 1..3 |-> menu.sections[1].tools[j].name]
           = <<NameA, ScriptingToolNAME, NameC>>
    /\ [j \in 1..2 |-> menu.sections[2].tools[j].name]
           = <<NameC, ScriptingToolNAME>>

----------------------------------------------------------------------------
(* Properties of the incoming-call notification *)

\* The join-project signals dispatched for the call of window w.
SignalsFor(w) == {i \in 1..Len(dispatched) : dispatched[i].window = w}

\* C6: at most one notification window exists at any time; after the loop
\* has handled an incoming call only that call's window exists, and after it
\* has handled an item carrying no call no window exists.
C6_OneWindow ==
    /\ Cardinality(windows) <= 1
    /\ (callOp.kind = "event" /\ callOp.window # 0) =>
           windows = {callOp.window}
    /\ (callOp.kind = "event" /\ callOp.window = 0) => windows = {}

C6_Witness ==
    /\ callOp.kind = "event"
    /\ callOp.window = 2
    /\ calls[1].response = "none"
    /\ windows = {2}

\* C7: the state right after an accept or a decline has been handled has the
\* window closed, on accept with the join still pending, and the window of
\* an answered call is closed whatever the join or the decline resulted in.
C7_RespondCloses ==
    /\ callOp.kind \in {"accept", "decline"} => callOp.window \notin windows
    /\ callOp.kind = "accept" => calls[callOp.window].join = "pending"
    /\ \A w \in 1..Len(calls) : calls[w].response # "none" => w \notin windows

C7_Witness ==
    /\ callOp.kind = "accept"
    /\ calls[callOp.window].join = "pending"
    /\ calls[callOp.window].task = "awaiting"
    /\ windows = {}

\* What holds of the join and of the signals of every call at all times.
C8_Safety ==
    \A w \in 1..Len(calls) :
        /\ calls[w].join_requests = (IF calls[w].response = "accept" THEN 1 ELSE 0)
        /\ Cardinality(SignalsFor(w)) <= 1
        /\ \A i \in SignalsFor(w) :
              /\ calls[w].response = "accept"
              /\ calls[w].join = "ok"
              /\ calls[w].call.initial_project_id = {dispatched[i].project_id}
              /\ dispatched[i].follow_user_id = calls[w].call.caller_id
              /\ w \notin windows
        /\ (calls[w].join = "err" \/ calls[w].call.initial_project_id = None)
              => SignalsFor(w) = {}

\* C8: an accepted call has its join requested exactly once; a join-project
\* signal for it is dispatched at most once, only with the window closed,
\* the join succeeded and the call's own project and caller, never when the
\* join failed or the call had no project; and when the join succeeds on a
\* call with a project the signal is eventually dispatched.
C8_JoinOnceThenSignal ==
    /\ []C8_Safety
    /\ \A w \in 1..MaxCalls :
          (w <= Len(calls) /\ calls[w].join = "ok"
              /\ calls[w].call.initial_project_id # None)
          ~> (SignalsFor(w) # {})

C8_Witness ==
    /\ callOp.kind = "resume"
    /\ calls[callOp.window].join = "ok"
    /\ calls[callOp.window].join_requests = 1
    /\ Cardinality(SignalsFor(callOp.window)) = 1
    /\ \E i \in SignalsFor(callOp.window) :
          dispatched[i].project_id = 7 /\ dispatched[i].follow_user_id = 1

\* C9: a declined call has had decline-call invoked exactly once by the end
\* of the handling step, no join requested and no signal dispatched, and
\* its window is closed with no other window open, whether or not
\* decline-call returned an error; decline-call is invoked for no other call.
C9_DeclineOnce ==
    /\ \A w \in 1..Len(calls) :
          /\ calls[w].decline_calls = (IF calls[w].response = "decline" THEN 1 ELSE 0)
          /\ calls[w].response = "decline" =>
                /\ calls[w].join_requests = 0
                /\ calls[w].join = "none"
                /\ calls[w].task = "none"
                /\ SignalsFor(w) = {}
                /\ w \notin windows
    /\ callOp.kind = "decline" => windows = {}

C9_Witness ==
    /\ callOp.kind = "decline"
    /\ callOp.err
    /\ calls[callOp.window].decline_calls = 1
    /\ windows = {}

\* C10: the task of an accepted call is never cancelled: it is awaiting or
\* done from the accept on, and a step of the notification loop or a
\* response to another call leaves a task that awaits its join exactly as it
\* was.
C10_TaskSurvives ==
    [][\A w \in 1..Len(calls') :
          /\ calls'[w].response = "accept" =>
                calls'[w].task \in {"awaiting", "done"}
          /\ (/\ w <= Len(calls)
              /\ calls[w].task = "awaiting"
              /\ callOp'.kind \in {"event", "end", "accept", "decline"})
                => calls'[w] = calls[w]]_vars

C10_Witness ==
    /\ callOp.kind = "resume"
    /\ SignalsFor(callOp.window) # {}
    /\ \E v \in windows : v > callOp.window /\ calls[v].response = "none"

====
